---------------------------- MODULE Spec2Model ----------------------------
(***************************************************************************)
(* Pairwise distance computation of utilmy/deeplearning/keras/             *)
(* util_similarity.py: tf_cdist, tf_cdist_euclidean, tf_cdist_cos and      *)
(* their helpers.                                                          *)
(*                                                                         *)
(* Numbers are IEEE-754 binary32 values (tf.float32).  A finite value is   *)
(* a pair <<m, e>> standing for m * 2^e, kept canonical: m is odd, or      *)
(* m = 0 and e = 0.  Every arithmetic operation rounds its exact result to *)
(* MantBits significant bits, ties to even.  Infinities and NaN carry the  *)
(* exponent ExpSpecial.  The sign of zero is not tracked, and the inputs   *)
(* of the model stay far from the overflow and underflow thresholds.       *)
(*                                                                         *)
(* A tensor is a record [shape, val]: shape is the sequence of dimensions  *)
(* and val the elements in row-major order.                                *)
(***************************************************************************)
EXTENDS Integers, Sequences, FiniteSets, TLC

\* ------------------------------------------------------------------------
\* Bounds of the model and constants of the program
\* ------------------------------------------------------------------------

\* largest number of rows of an input point set
MaxRows == 2
\* largest number of columns (dimensionality D) of an input point set
MaxD == 2
\* number of threads of the caller
NumThreads == 2

\* significand width of tf.float32
MantBits == 24
\* exponent that marks the infinities and NaN of tf.float32
ExpSpecial == 128

\* ------------------------------------------------------------------------
\* binary32 arithmetic
\* ------------------------------------------------------------------------

RECURSIVE Pow2(_)
Pow2(n) == IF n <= 0 THEN 1 ELSE 2 * Pow2(n - 1)

Abs(x) == IF x < 0 THEN -x ELSE x

\* number of bits of the magnitude of n
RECURSIVE Width(_)
Width(n) == IF n = 0 THEN 0 ELSE 1 + Width(Abs(n) \div 2)

\* the canonical pair of m * 2^e
RECURSIVE Canon(_, _)
Canon(m, e) ==
    IF m = 0 THEN <<0, 0>>
    ELSE IF m % 2 = 0 THEN Canon(m \div 2, e + 1)
    ELSE <<m, e>>

NaN == <<0, ExpSpecial>>
PosInf == <<1, ExpSpecial>>
NegInf == <<-1, ExpSpecial>>
Zero == <<0, 0>>

IsNaN(a) == a = NaN
IsInf(a) == a = PosInf \/ a = NegInf
IsFinite(a) == a[2] # ExpSpecial
Neg(a) == <<-a[1], a[2]>>
Sign(a) == IF a[1] < 0 THEN -1 ELSE IF a[1] > 0 THEN 1 ELSE 0

\* Round (m + f) * 2^e, m >= 0, to MantBits significant bits, ties to
\* even; sticky says that 0 < f < 1, and f = 0 otherwise.
RoundF(m, e, sticky) ==
    LET w == Width(m) IN
    IF w <= MantBits THEN Canon(m, e)
    ELSE LET sh   == w - MantBits
             q    == m \div Pow2(sh)
             r    == m % Pow2(sh)
             half == Pow2(sh - 1)
             up   == \/ r > half
                     \/ r = half /\ (sticky \/ q % 2 = 1)
         IN  Canon(IF up THEN q + 1 ELSE q, e + sh)

\* the binary32 value nearest to the integer n
FromInt(n) == IF n < 0 THEN Neg(RoundF(-n, 0, FALSE)) ELSE RoundF(n, 0, FALSE)

\* a + b of two finite values
FAddFinite(a, b) ==
    IF a[1] = 0 THEN b
    ELSE IF b[1] = 0 THEN a
    ELSE LET hi == IF a[2] >= b[2] THEN a ELSE b
             lo == IF a[2] >= b[2] THEN b ELSE a
             d  == hi[2] - lo[2]
             w  == Width(hi[1])
         IN  IF w + d <= 30
             THEN LET s == hi[1] * Pow2(d) + lo[1]
                  IN  IF s < 0 THEN Neg(RoundF(-s, lo[2], FALSE))
                      ELSE RoundF(s, lo[2], FALSE)
             ELSE \* lo is far below hi: keep 30 bits and a sticky bit
                  LET k  == w + d - 30
                      sg == Sign(hi)
                      hm == Abs(hi[1]) * Pow2(d - k)
                      lm == sg * lo[1]
                      lq == IF k > 30 THEN (IF lm < 0 THEN -1 ELSE 0)
                            ELSE lm \div Pow2(k)
                      st == IF k > 30 THEN TRUE ELSE lm % Pow2(k) # 0
                      r  == RoundF(hm + lq, lo[2] + k, st)
                  IN  IF sg < 0 THEN Neg(r) ELSE r

FAdd(a, b) ==
    IF IsNaN(a) \/ IsNaN(b) THEN NaN
    ELSE IF IsInf(a) /\ IsInf(b) THEN (IF a = b THEN a ELSE NaN)
    ELSE IF IsInf(a) THEN a
    ELSE IF IsInf(b) THEN b
    ELSE FAddFinite(a, b)

FSub(a, b) == FAdd(a, Neg(b))

\* |a| * |b| of two significands, as <<p, t, sticky>>: the exact product
\* is (p + f) * 2^t with 0 <= f < 1, and sticky says f > 0; a product wider
\* than 30 bits is formed from 12-bit halves and cut to 30 bits
MulWide(x, y) ==
    LET wx == Width(x)
        wy == Width(y)
    IN  IF wx + wy <= 30 THEN <<x * y, 0, FALSE>>
        ELSE LET t    == wx + wy - 30
                 xh   == x \div 4096
                 xl   == x % 4096
                 yh   == y \div 4096
                 yl   == y % 4096
                 low  == xl * yl
                 mid  == xh * yl + xl * yh
                 high == xh * yh
             IN  IF t >= 12
                 THEN LET u == mid + (low \div 4096)
                      IN  <<high * Pow2(24 - t) + (u \div Pow2(t - 12)), t,
                            (low % 4096 # 0) \/ (u % Pow2(t - 12) # 0)>>
                 ELSE <<high * Pow2(24 - t) + mid * Pow2(12 - t) + (low \div Pow2(t)),
                        t, low % Pow2(t) # 0>>

FMul(a, b) ==
    IF IsNaN(a) \/ IsNaN(b) THEN NaN
    ELSE IF IsInf(a) \/ IsInf(b)
         THEN (IF Sign(a) * Sign(b) = 0 THEN NaN
               ELSE IF Sign(a) * Sign(b) > 0 THEN PosInf ELSE NegInf)
    ELSE LET p == MulWide(Abs(a[1]), Abs(b[1]))
             v == RoundF(p[1], a[2] + b[2] + p[2], p[3])
         IN  IF Sign(a) * Sign(b) < 0 THEN Neg(v) ELSE v

\* long division: quotient bits are produced until the quotient is exact
\* or holds MantBits + 2 bits; <<q, r, k>> with n * 2^k = q * d + r
RECURSIVE DivIter(_, _, _, _)
DivIter(q, r, d, k) ==
    IF r = 0 \/ q >= Pow2(MantBits + 1) THEN <<q, r, k>>
    ELSE IF 2 * r >= d THEN DivIter(2 * q + 1, 2 * r - d, d, k + 1)
    ELSE DivIter(2 * q, 2 * r, d, k + 1)

FDiv(a, b) ==
    IF IsNaN(a) \/ IsNaN(b) THEN NaN
    ELSE IF IsInf(a) THEN (IF IsInf(b) THEN NaN
                           ELSE IF Sign(a) * Sign(b) < 0 THEN Neg(PosInf)
                           ELSE IF Sign(b) = 0 THEN a ELSE PosInf)
    ELSE IF IsInf(b) THEN Zero
    ELSE IF b[1] = 0 THEN (IF a[1] = 0 THEN NaN
                           ELSE IF a[1] > 0 THEN PosInf ELSE NegInf)
    ELSE IF a[1] = 0 THEN Zero
    ELSE LET n   == Abs(a[1])
             d   == Abs(b[1])
             res == DivIter(n \div d, n % d, d, 0)
             v   == RoundF(res[1], a[2] - b[2] - res[3], res[2] # 0)
         IN  IF Sign(a) * Sign(b) < 0 THEN Neg(v) ELSE v

\* floor of the square root of n
RECURSIVE ISqrt(_)
ISqrt(n) ==
    IF n < 2 THEN n
    ELSE LET s == 2 * ISqrt(n \div 4)
         IN  IF (s + 1) * (s + 1) <= n THEN s + 1 ELSE s

\* digit-by-digit square root: <<q, r, k>> with n * 4^k = q * q + r
RECURSIVE SqrtIter(_, _, _)
SqrtIter(q, r, k) ==
    IF r = 0 \/ q >= Pow2(MantBits + 1) THEN <<q, r, k>>
    ELSE IF 4 * r >= 4 * q + 1
         THEN SqrtIter(2 * q + 1, 4 * r - (4 * q + 1), k + 1)
         ELSE SqrtIter(2 * q, 4 * r, k + 1)

FSqrt(a) ==
    IF IsNaN(a) THEN NaN
    ELSE IF a[1] < 0 THEN NaN
    ELSE IF IsInf(a) THEN PosInf
    ELSE IF a[1] = 0 THEN Zero
    ELSE LET odd == a[2] % 2 = 1
             n   == IF odd THEN 2 * a[1] ELSE a[1]
             e   == IF odd THEN a[2] - 1 ELSE a[2]
             q0  == ISqrt(n)
             res == SqrtIter(q0, n - q0 * q0, 0)
         IN  RoundF(res[1], (e \div 2) - res[3], res[2] # 0)

\* a > b; false when either is NaN
FGt(a, b) ==
    IF IsNaN(a) \/ IsNaN(b) THEN FALSE
    ELSE IF a = b THEN FALSE
    ELSE IF a = PosInf \/ b = NegInf THEN TRUE
    ELSE IF a = NegInf \/ b = PosInf THEN FALSE
    ELSE FSub(a, b)[1] > 0

FGe(a, b) == FGt(a, b) \/ (a = b /\ ~IsNaN(a))

\* ------------------------------------------------------------------------
\* Tensors and the tensor operations the module calls
\* ------------------------------------------------------------------------

RECURSIVE Size(_)
Size(shape) == IF shape = <<>> THEN 1 ELSE Head(shape) * Size(Tail(shape))

Rows(T) == T.shape[1]
Cols(T) == T.shape[2]
\* element (i, j) of a tensor of rank 2
At(T, i, j) == T.val[(i - 1) * Cols(T) + j]

\* tf.cast(tf.convert_to_tensor(x), dtype=tf.float32): the numbers of the
\* array-like x, each rounded to binary32
cast_to_float32(x) == [shape |-> x.shape, val |-> [i \in 1..Len(x.val) |-> FromInt(x.val[i])]]

\* tf.cast(t, tf.float32) of a tensor that holds binary32 values
CastF32(a) ==
    IF ~IsFinite(a) THEN a
    ELSE IF a[1] < 0 THEN Neg(RoundF(-a[1], a[2], FALSE))
    ELSE RoundF(a[1], a[2], FALSE)

tf_cast(T) == [shape |-> T.shape, val |-> [i \in 1..Len(T.val) |-> CastF32(T.val[i])]]

\* tf.shape(t)[0]
tf_shape0(T) == T.shape[1]

\* tf.pow(t, 2.0)
Square(a) == FMul(a, a)

tf_pow2(T) == [shape |-> T.shape, val |-> [i \in 1..Len(T.val) |-> Square(T.val[i])]]

\* the sum of the elements lo..hi of a sequence, accumulated in index order
RECURSIVE SumSeq(_, _, _)
SumSeq(v, lo, hi) == IF hi < lo THEN Zero ELSE FAdd(SumSeq(v, lo, hi - 1), v[hi])

\* tf.reduce_sum(t, axis=1) of a tensor of rank 2: one sum per row
tf_reduce_sum_axis1(T) ==
    [shape |-> <<Rows(T)>>,
     val   |-> [i \in 1..Rows(T) |-> SumSeq(T.val, (i - 1) * Cols(T) + 1, i * Cols(T))]]

\* the product of the entries of a shape other than -1
RECURSIVE KnownSize(_)
KnownSize(shape) ==
    IF shape = <<>> THEN 1
    ELSE (IF Head(shape) = -1 THEN 1 ELSE Head(shape)) * KnownSize(Tail(shape))

\* tf.reshape(t, shape); an entry -1 of the shape is inferred from the size
tf_reshape(T, shape) ==
    LET k == KnownSize(shape)
    IN  [shape |-> [d \in 1..Len(shape) |->
                      IF shape[d] = -1 THEN Len(T.val) \div k ELSE shape[d]],
         val   |-> T.val]

\* tf.tile(t, multiples) of a tensor of rank 2
tf_tile(T, multiples) ==
    LET r == Rows(T) * multiples[1]
        c == Cols(T) * multiples[2]
    IN  [shape |-> <<r, c>>,
         val   |-> [x \in 1..(r * c) |->
                      At(T, (((x - 1) \div c) % Rows(T)) + 1, (((x - 1) % c) % Cols(T)) + 1)]]

\* tf.transpose left out: the tensor as it is
TransposeForgotten(T) == T

\* tf.transpose(t) of a tensor of rank 2
tf_transpose(T) ==
    LET r == Cols(T)
        c == Rows(T)
    IN  [shape |-> <<r, c>>,
         val   |-> [x \in 1..(r * c) |-> At(T, ((x - 1) % c) + 1, ((x - 1) \div c) + 1)]]

\* a matrix product that accepts a left operand with fewer columns than the
\* right operand has rows, and ignores the rows in excess
MatmulOkLenient(A, B) == Cols(A) <= Rows(B)

\* tf.matmul accepts its operands: the inner dimensions agree
MatmulOk(A, B) == Cols(A) = Rows(B)

\* the dot product of row i of A and column j of B, each product rounded,
\* accumulated in index order
RECURSIVE DotUpTo(_, _, _, _, _)
DotUpTo(A, B, i, j, k) ==
    IF k = 0 THEN Zero
    ELSE FAdd(DotUpTo(A, B, i, j, k - 1), FMul(At(A, i, k), At(B, k, j)))

\* tf.matmul(a, b)
tf_matmul(A, B) ==
    LET r == Rows(A)
        c == Cols(B)
    IN  [shape |-> <<r, c>>,
         val   |-> [x \in 1..(r * c) |->
                      DotUpTo(A, B, ((x - 1) \div c) + 1, ((x - 1) % c) + 1, Cols(A))]]

\* the dimension two broadcast dimensions give
BroadcastDim(a, b) == IF a = 1 THEN b ELSE a

\* a division guarded against a zero divisor
BinOpGuardedDiv(op, a, b) ==
    IF op = "add" THEN FAdd(a, b)
    ELSE IF op = "sub" THEN FSub(a, b)
    ELSE IF b = Zero THEN Zero
    ELSE FDiv(a, b)

\* the binary operation op of a and b
BinOp(op, a, b) ==
    IF op = "add" THEN FAdd(a, b)
    ELSE IF op = "sub" THEN FSub(a, b)
    ELSE FDiv(a, b)

\* an elementwise binary operation of two tensors of rank 2, with
\* broadcasting of the dimensions that are 1
Elementwise(op, A, B) ==
    LET r == BroadcastDim(Rows(A), Rows(B))
        c == BroadcastDim(Cols(A), Cols(B))
        ia(i) == IF Rows(A) = 1 THEN 1 ELSE i
        ja(j) == IF Cols(A) = 1 THEN 1 ELSE j
        ib(i) == IF Rows(B) = 1 THEN 1 ELSE i
        jb(j) == IF Cols(B) = 1 THEN 1 ELSE j
    IN  [shape |-> <<r, c>>,
         val   |-> [x \in 1..(r * c) |->
                      LET i == ((x - 1) \div c) + 1
                          j == ((x - 1) % c) + 1
                      IN  BinOp(op, At(A, ia(i), ja(j)), At(B, ib(i), jb(j)))]]

\* line 93 with the factor 2.0 lost
DoubleLost(a) == a

\* 2.0 * t
Double(a) == FMul(FromInt(2), a)

TimesTwo(T) == [shape |-> T.shape, val |-> [i \in 1..Len(T.val) |-> Double(T.val[i])]]

\* line 108 returning the cosine similarity
OneMinusLost(a) == a

\* 1.0 - t
OneMinus(a) == FSub(FromInt(1), a)

OneMinusT(T) == [shape |-> T.shape, val |-> [i \in 1..Len(T.val) |-> OneMinus(T.val[i])]]

\* line 94 without tf.where: the square root of every entry
SqrtUnclamped(a) == FSqrt(a)

\* tf.where(t > 0.0, tf.sqrt(t), 0.0), element by element
SqrtWherePositive(a) == IF FGt(a, Zero) THEN FSqrt(a) ELSE Zero

tf_where_sqrt(T) ==
    [shape |-> T.shape, val |-> [i \in 1..Len(T.val) |-> SqrtWherePositive(T.val[i])]]

\* tf.sqrt(t)
tf_sqrt(T) == [shape |-> T.shape, val |-> [i \in 1..Len(T.val) |-> FSqrt(T.val[i])]]

\* tf.norm(t, axis=1): the square root of the sum of the squares of each row
tf_norm_axis1(T) == tf_sqrt(tf_reduce_sum_axis1(tf_pow2(T)))

\* ------------------------------------------------------------------------
\* The helpers and the routines of util_similarity.py, as functions
\* ------------------------------------------------------------------------

\* the value of a name that is not bound
NoTensor == [shape |-> <<>>, val |-> <<>>]

cast_left_and_right_to_tensors(left, right) ==
    <<cast_to_float32(left), cast_to_float32(right)>>

get_rows_counts(left, right) == <<tf_shape0(left), tf_shape0(right)>>

get_tensor_sqr(tensor, reshape_shape, tile_shape) ==
    LET sqr1 == tf_pow2(tensor)
        sqr2 == tf_reduce_sum_axis1(sqr1)
        sqr3 == tf_reshape(sqr2, reshape_shape)
    IN  tf_tile(sqr3, tile_shape)

get_tensor_reshaped_norm(tensor, reshape_shape) ==
    tf_reshape(tf_norm_axis1(tensor), reshape_shape)

\* left_sqr - 2.0 * left_right_mat_mul + right_sqr
SqrSum(left_sqr, left_right_mat_mul, right_sqr) ==
    Elementwise("add", Elementwise("sub", left_sqr, TimesTwo(left_right_mat_mul)),
                right_sqr)

\* tf.matmul(left, tf.transpose(right)) / norm_left / norm_right
CosOf(left, right, norm_left, norm_right) ==
    Elementwise("div", Elementwise("div", tf_matmul(left, tf_transpose(right)), norm_left),
                norm_right)

\* what a call hands to its caller: a returned tensor, or a raised error
Returned(T) == [error |-> "", message |-> "", value |-> T]
Raised(kind, msg) == [error |-> kind, message |-> msg, value |-> NoTensor]
NoOutcome == [error |-> "", message |-> "", value |-> NoTensor]

\* the error of tf.matmul for operands whose inner dimensions differ
MatmulError == Raised("InvalidArgumentError", "Matrix size-incompatible")

tf_cdist_euclidean(left0, right0) ==
    LET lr                 == cast_left_and_right_to_tensors(left0, right0)
        left               == lr[1]
        right              == lr[2]
        rc                 == get_rows_counts(left, right)
        left_sqr           == get_tensor_sqr(left, <<-1, 1>>, <<1, rc[2]>>)
        right_sqr          == get_tensor_sqr(right, <<1, -1>>, <<rc[1], 1>>)
        left_right_mat_mul == tf_matmul(left, tf_transpose(right))
        sqr_sum            == SqrSum(left_sqr, left_right_mat_mul, right_sqr)
        distance           == tf_where_sqrt(sqr_sum)
    IN  IF ~MatmulOk(left, tf_transpose(right)) THEN MatmulError
        ELSE Returned(tf_cast(distance))

tf_cdist_cos(left0, right0) ==
    LET lr         == cast_left_and_right_to_tensors(left0, right0)
        left       == lr[1]
        right      == lr[2]
        norm_left  == get_tensor_reshaped_norm(left, <<-1, 1>>)
        norm_right == get_tensor_reshaped_norm(right, <<1, -1>>)
        cos        == CosOf(left, right, norm_left, norm_right)
        distance   == OneMinusT(cos)
    IN  IF ~MatmulOk(left, tf_transpose(right)) THEN MatmulError
        ELSE Returned(tf_cast(distance))

\* f'Metric type not understood: value {metric} is not valid!'
MetricError(metric) == Raised("ValueError", metric)

tf_cdist(left, right, metric) ==
    IF metric = "euclidean" THEN tf_cdist_euclidean(left, right)
    ELSE IF metric = "cosine" THEN tf_cdist_cos(left, right)
    ELSE MetricError(metric)

\* ------------------------------------------------------------------------
\* The inputs of the model
\* ------------------------------------------------------------------------

\* A point is built from a seed <<first, rest>>: its first coordinate is
\* first and every other coordinate is rest.  The seeds give the zero
\* vector, and coordinates whose squares and sums need rounding in binary32.
Seeds == << <<0, 0>>, <<4083, 6>>, <<4100, 4100>> >>

Coord(seed, k) == IF k = 1 THEN seed[1] ELSE seed[2]

\* the array-like of shape (n, d) whose row i is the point of seed Seeds[rows[i]]
ArrayOf(n, d, rows) ==
    [shape |-> <<n, d>>,
     val   |-> [x \in 1..(n * d) |->
                   Coord(Seeds[rows[((x - 1) \div d) + 1]], ((x - 1) % d) + 1)]]

\* the rows of an array stand in the order of their seeds: entry (i, j) of
\* the result is computed from row i of left and row j of right alone
RowChoices(n) ==
    {rows \in [1..n -> 1..Len(Seeds)] : \A i \in 1..n : \A j \in i..n : rows[i] <= rows[j]}

\* two points at distance 1 whose squares and product exceed 2^25, so that
\* each is rounded to a multiple of 4 in binary32
RoundOffArrays ==
    {[shape |-> <<1, 1>>, val |-> <<5794>>], [shape |-> <<1, 1>>, val |-> <<5795>>]}

Arrays ==
    UNION {UNION {{ArrayOf(n, d, rows) : rows \in RowChoices(n)} : n \in 0..MaxRows}
           : d \in 1..MaxD}
    \cup RoundOffArrays

\* the input example of the docstring of tf_cdist, line 69
ExampleLeft == [shape |-> <<2, 2>>, val |-> <<1, 2, 3, 4>>]
ExampleRight == [shape |-> <<2, 2>>, val |-> <<10, 11, 12, 13>>]

\* the calls on the example, one for each metric
ExampleCalls ==
    {<<ExampleLeft, ExampleRight, "euclidean">>, <<ExampleLeft, ExampleRight, "cosine">>}

Metrics == {"euclidean", "cosine", "manhattan", "Euclidean"}

Threads == 1..NumThreads

\* ------------------------------------------------------------------------
\* State
\* ------------------------------------------------------------------------

\* active: the threads that call tf_cdist
\* frame[t]: the call of thread t: the parameters of tf_cdist (arg_left,
\*   arg_right, metric; metric_passed tells whether the caller passed the
\*   metric or left it to the default), the line the call has reached (pc),
\*   the local names of tf_cdist_euclidean and tf_cdist_cos, the numeric
\*   operations the call has performed so far (work), and what the caller
\*   got when the call ended (outcome)
VARIABLES active, frame

vars == <<active, frame>>

NoFrame ==
    [pc |-> "idle", arg_left |-> NoTensor, arg_right |-> NoTensor, metric |-> "",
     metric_passed |-> FALSE,
     left |-> NoTensor, right |-> NoTensor,
     rows_count_left |-> -1, rows_count_right |-> -1,
     left_sqr |-> NoTensor, right_sqr |-> NoTensor, left_right_mat_mul |-> NoTensor,
     sqr_sum |-> NoTensor, norm_left |-> NoTensor, norm_right |-> NoTensor,
     cos |-> NoTensor, distance |-> NoTensor,
     work |-> {}, outcome |-> NoOutcome]

\* a call that ends and keeps the tensors it computed for later calls
EndedKeepsLocals(f, out) ==
    [f EXCEPT !.pc = IF out.error = "" THEN "returned" ELSE "raised", !.outcome = out]

\* the frame of a call that has ended: its local names are gone
Ended(f, out) ==
    [NoFrame EXCEPT !.pc = IF out.error = "" THEN "returned" ELSE "raised",
                    !.arg_left = f.arg_left, !.arg_right = f.arg_right,
                    !.metric = f.metric, !.metric_passed = f.metric_passed,
                    !.work = f.work, !.outcome = out]

Init ==
    /\ active = {1}
    /\ frame = [t \in Threads |-> NoFrame]

\* ------------------------------------------------------------------------
\* Actions: one per line of the source
\* ------------------------------------------------------------------------

\* the caller calls tf_cdist(left, right, metric)
Call(t) ==
    /\ frame[t].pc = "idle"
    /\ \E l \in Arrays, r \in Arrays, m \in Metrics :
         frame' = [frame EXCEPT ![t] =
                     [NoFrame EXCEPT !.pc = "tf_cdist", !.arg_left = l, !.arg_right = r,
                                     !.metric = m, !.metric_passed = TRUE,
                                     !.left = l, !.right = r]]
    /\ UNCHANGED active

\* the caller calls tf_cdist on the example of the docstring
CallExample(t) ==
    /\ frame[t].pc = "idle"
    /\ \E c \in ExampleCalls :
         frame' = [frame EXCEPT ![t] =
                     [NoFrame EXCEPT !.pc = "tf_cdist", !.arg_left = c[1], !.arg_right = c[2],
                                     !.metric = c[3], !.metric_passed = TRUE,
                                     !.left = c[1], !.right = c[2]]]
    /\ UNCHANGED active

\* the value line 66 gives the parameter metric when the caller passes none
DefaultMetric == "euclidean"

\* a signature whose default metric is 'cosine'
CallDefaultCosine(t) ==
    /\ frame[t].pc = "idle"
    /\ \E l \in Arrays, r \in Arrays :
         frame' = [frame EXCEPT ![t] =
                     [NoFrame EXCEPT !.pc = "tf_cdist", !.arg_left = l, !.arg_right = r,
                                     !.metric = "cosine", !.left = l, !.right = r]]
    /\ UNCHANGED active

\* the caller calls tf_cdist(left, right): metric takes its default
CallDefault(t) ==
    /\ frame[t].pc = "idle"
    /\ \E l \in Arrays, r \in Arrays :
         frame' = [frame EXCEPT ![t] =
                     [NoFrame EXCEPT !.pc = "tf_cdist", !.arg_left = l, !.arg_right = r,
                                     !.metric = DefaultMetric, !.left = l, !.right = r]]
    /\ UNCHANGED active

\* Dispatch with the else branch lost: a metric that is not 'cosine' is
\* taken for 'euclidean'
DispatchFallsThrough(t) ==
    /\ frame[t].pc = "tf_cdist"
    /\ frame' = [frame EXCEPT ![t] =
                   IF @.metric = "cosine" THEN [@ EXCEPT !.pc = "cos_cast"]
                   ELSE [@ EXCEPT !.pc = "euclidean_cast"]]
    /\ UNCHANGED active

\* Dispatch with the two routines exchanged
DispatchSwapped(t) ==
    /\ frame[t].pc = "tf_cdist"
    /\ frame' = [frame EXCEPT ![t] =
                   IF @.metric = "euclidean" THEN [@ EXCEPT !.pc = "cos_cast"]
                   ELSE IF @.metric = "cosine" THEN [@ EXCEPT !.pc = "euclidean_cast"]
                   ELSE Ended(@, MetricError(@.metric))]
    /\ UNCHANGED active

\* tf_cdist, lines 73-79: the dispatch on metric
Dispatch(t) ==
    /\ frame[t].pc = "tf_cdist"
    /\ frame' = [frame EXCEPT ![t] =
                   IF @.metric = "euclidean" THEN [@ EXCEPT !.pc = "euclidean_cast"]
                   ELSE IF @.metric = "cosine" THEN [@ EXCEPT !.pc = "cos_cast"]
                   ELSE Ended(@, MetricError(@.metric))]
    /\ UNCHANGED active

\* tf_cdist_euclidean, line 88
EuclideanCast(t) ==
    /\ frame[t].pc = "euclidean_cast"
    /\ frame' = [frame EXCEPT ![t] =
                   LET lr == cast_left_and_right_to_tensors(@.left, @.right)
                   IN  [@ EXCEPT !.pc = "euclidean_rows", !.left = lr[1], !.right = lr[2],
                                 !.work = @ \cup {"cast"}]]
    /\ UNCHANGED active

\* tf_cdist_euclidean, line 89
EuclideanRows(t) ==
    /\ frame[t].pc = "euclidean_rows"
    /\ frame' = [frame EXCEPT ![t] =
                   LET rc == get_rows_counts(@.left, @.right)
                   IN  [@ EXCEPT !.pc = "euclidean_left_sqr", !.rows_count_left = rc[1],
                                 !.rows_count_right = rc[2]]]
    /\ UNCHANGED active

\* line 90 with a reshape that cannot infer a dimension of an empty tensor
EuclideanLeftSqrRejectsEmpty(t) ==
    /\ frame[t].pc = "euclidean_left_sqr"
    /\ frame' = [frame EXCEPT ![t] =
                   IF @.rows_count_left = 0 \/ @.rows_count_right = 0
                   THEN Ended(@, Raised("InvalidArgumentError", "Reshape cannot infer"))
                   ELSE [@ EXCEPT !.pc = "euclidean_right_sqr",
                                  !.left_sqr = get_tensor_sqr(frame[t].left, <<-1, 1>>,
                                                              <<1, frame[t].rows_count_right>>),
                                  !.work = @ \cup {"sqr"}]]
    /\ UNCHANGED active

\* tf_cdist_euclidean, line 90
EuclideanLeftSqr(t) ==
    /\ frame[t].pc = "euclidean_left_sqr"
    /\ frame' = [frame EXCEPT ![t] =
                   [@ EXCEPT !.pc = "euclidean_right_sqr",
                             !.left_sqr = get_tensor_sqr(frame[t].left, <<-1, 1>>,
                                                         <<1, frame[t].rows_count_right>>),
                             !.work = @ \cup {"sqr"}]]
    /\ UNCHANGED active

\* tf_cdist_euclidean, line 91
EuclideanRightSqr(t) ==
    /\ frame[t].pc = "euclidean_right_sqr"
    /\ frame' = [frame EXCEPT ![t] =
                   [@ EXCEPT !.pc = "euclidean_matmul",
                             !.right_sqr = get_tensor_sqr(frame[t].right, <<1, -1>>,
                                                          <<frame[t].rows_count_left, 1>>),
                             !.work = @ \cup {"sqr"}]]
    /\ UNCHANGED active

\* line 92 with the error of tf.matmul caught: the call returns what it has
\* computed so far
EuclideanMatmulReturnsPartial(t) ==
    /\ frame[t].pc = "euclidean_matmul"
    /\ frame' = [frame EXCEPT ![t] =
                   IF MatmulOk(@.left, tf_transpose(@.right))
                   THEN [@ EXCEPT !.pc = "euclidean_sqr_sum",
                                  !.left_right_mat_mul =
                                      tf_matmul(frame[t].left, tf_transpose(frame[t].right)),
                                  !.work = @ \cup {"matmul"}]
                   ELSE Ended(@, Returned(@.left_sqr))]
    /\ UNCHANGED active

\* tf_cdist_euclidean, line 92; tf.matmul raises when the column counts of
\* left and right differ
EuclideanMatmul(t) ==
    /\ frame[t].pc = "euclidean_matmul"
    /\ frame' = [frame EXCEPT ![t] =
                   IF MatmulOk(@.left, tf_transpose(@.right))
                   THEN [@ EXCEPT !.pc = "euclidean_sqr_sum",
                                  !.left_right_mat_mul =
                                      tf_matmul(frame[t].left, tf_transpose(frame[t].right)),
                                  !.work = @ \cup {"matmul"}]
                   ELSE Ended(@, MatmulError)]
    /\ UNCHANGED active

\* tf_cdist_euclidean, line 93
EuclideanSqrSum(t) ==
    /\ frame[t].pc = "euclidean_sqr_sum"
    /\ frame' = [frame EXCEPT ![t] =
                   [@ EXCEPT !.pc = "euclidean_where",
                             !.sqr_sum = SqrSum(frame[t].left_sqr, frame[t].left_right_mat_mul,
                                                frame[t].right_sqr),
                             !.work = @ \cup {"sum"}]]
    /\ UNCHANGED active

\* tf_cdist_euclidean, line 94
EuclideanWhere(t) ==
    /\ frame[t].pc = "euclidean_where"
    /\ frame' = [frame EXCEPT ![t] =
                   [@ EXCEPT !.pc = "euclidean_cast_out",
                             !.distance = tf_where_sqrt(frame[t].sqr_sum),
                             !.work = @ \cup {"sqrt"}]]
    /\ UNCHANGED active

\* tf_cdist_euclidean, line 95
EuclideanCastOut(t) ==
    /\ frame[t].pc = "euclidean_cast_out"
    /\ frame' = [frame EXCEPT ![t] =
                   [@ EXCEPT !.pc = "euclidean_return",
                             !.distance = tf_cast(frame[t].distance)]]
    /\ UNCHANGED active

\* tf_cdist_euclidean, line 96, and tf_cdist, line 74
EuclideanReturn(t) ==
    /\ frame[t].pc = "euclidean_return"
    /\ frame' = [frame EXCEPT ![t] = Ended(@, Returned(@.distance))]
    /\ UNCHANGED active

\* tf_cdist_cos, line 104
CosCast(t) ==
    /\ frame[t].pc = "cos_cast"
    /\ frame' = [frame EXCEPT ![t] =
                   LET lr == cast_left_and_right_to_tensors(@.left, @.right)
                   IN  [@ EXCEPT !.pc = "cos_norm_left", !.left = lr[1], !.right = lr[2],
                                 !.work = @ \cup {"cast"}]]
    /\ UNCHANGED active

\* tf_cdist_cos, line 105
CosNormLeft(t) ==
    /\ frame[t].pc = "cos_norm_left"
    /\ frame' = [frame EXCEPT ![t] =
                   [@ EXCEPT !.pc = "cos_norm_right",
                             !.norm_left = get_tensor_reshaped_norm(frame[t].left, <<-1, 1>>),
                             !.work = @ \cup {"norm"}]]
    /\ UNCHANGED active

\* tf_cdist_cos, line 106
CosNormRight(t) ==
    /\ frame[t].pc = "cos_norm_right"
    /\ frame' = [frame EXCEPT ![t] =
                   [@ EXCEPT !.pc = "cos_cos",
                             !.norm_right = get_tensor_reshaped_norm(frame[t].right, <<1, -1>>),
                             !.work = @ \cup {"norm"}]]
    /\ UNCHANGED active

\* tf_cdist_cos, line 107; tf.matmul raises when the column counts of left
\* and right differ
CosCos(t) ==
    /\ frame[t].pc = "cos_cos"
    /\ frame' = [frame EXCEPT ![t] =
                   IF MatmulOk(@.left, tf_transpose(@.right))
                   THEN [@ EXCEPT !.pc = "cos_distance",
                                  !.cos = CosOf(frame[t].left, frame[t].right,
                                                frame[t].norm_left, frame[t].norm_right),
                                  !.work = @ \cup {"matmul", "div"}]
                   ELSE Ended(@, MatmulError)]
    /\ UNCHANGED active

\* line 108 with cos kept in a name of the module, which all calls share
\* and the first thread writes
CosDistanceSharedCos(t) ==
    /\ frame[t].pc = "cos_distance"
    /\ frame' = [frame EXCEPT ![t] =
                   [@ EXCEPT !.pc = "cos_cast_out",
                             !.distance = OneMinusT(frame[1].cos),
                             !.work = @ \cup {"sub"}]]
    /\ UNCHANGED active

\* tf_cdist_cos, line 108
CosDistance(t) ==
    /\ frame[t].pc = "cos_distance"
    /\ frame' = [frame EXCEPT ![t] =
                   [@ EXCEPT !.pc = "cos_cast_out",
                             !.distance = OneMinusT(frame[t].cos),
                             !.work = @ \cup {"sub"}]]
    /\ UNCHANGED active

\* tf_cdist_cos, line 109
CosCastOut(t) ==
    /\ frame[t].pc = "cos_cast_out"
    /\ frame' = [frame EXCEPT ![t] =
                   [@ EXCEPT !.pc = "cos_return", !.distance = tf_cast(frame[t].distance)]]
    /\ UNCHANGED active

\* tf_cdist_cos, line 110, and tf_cdist, line 76
CosReturn(t) ==
    /\ frame[t].pc = "cos_return"
    /\ frame' = [frame EXCEPT ![t] = Ended(@, Returned(@.distance))]
    /\ UNCHANGED active

\* the caller takes the outcome and goes on
Resume(t) ==
    /\ frame[t].pc \in {"returned", "raised"}
    /\ frame' = [frame EXCEPT ![t] = NoFrame]
    /\ UNCHANGED active

Next ==
    \/ \E t \in active : Call(t)
    \/ \E t \in active : CallDefault(t)
    \/ \E t \in active : Dispatch(t)
    \/ \E t \in active : EuclideanCast(t)
    \/ \E t \in active : EuclideanRows(t)
    \/ \E t \in active : EuclideanLeftSqr(t)
    \/ \E t \in active : EuclideanRightSqr(t)
    \/ \E t \in active : EuclideanMatmul(t)
    \/ \E t \in active : EuclideanSqrSum(t)
    \/ \E t \in active : EuclideanWhere(t)
    \/ \E t \in active : EuclideanCastOut(t)
    \/ \E t \in active : EuclideanReturn(t)
    \/ \E t \in active : CosCast(t)
    \/ \E t \in active : CosNormLeft(t)
    \/ \E t \in active : CosNormRight(t)
    \/ \E t \in active : CosCos(t)
    \/ \E t \in active : CosDistance(t)
    \/ \E t \in active : CosCastOut(t)
    \/ \E t \in active : CosReturn(t)
    \/ \E t \in active : Resume(t)

Spec == Init /\ [][Next]_vars

\* Several threads call tf_cdist at once; their steps interleave in any
\* order, and nothing makes one thread wait for another.
InitThreads ==
    /\ active = Threads
    /\ frame = [t \in Threads |-> NoFrame]

NextThreads ==
    \/ \E t \in active : CallExample(t)
    \/ \E t \in active : Dispatch(t)
    \/ \E t \in active : EuclideanCast(t)
    \/ \E t \in active : EuclideanRows(t)
    \/ \E t \in active : EuclideanLeftSqr(t)
    \/ \E t \in active : EuclideanRightSqr(t)
    \/ \E t \in active : EuclideanMatmul(t)
    \/ \E t \in active : EuclideanSqrSum(t)
    \/ \E t \in active : EuclideanWhere(t)
    \/ \E t \in active : EuclideanCastOut(t)
    \/ \E t \in active : EuclideanReturn(t)
    \/ \E t \in active : CosCast(t)
    \/ \E t \in active : CosNormLeft(t)
    \/ \E t \in active : CosNormRight(t)
    \/ \E t \in active : CosCos(t)
    \/ \E t \in active : CosDistance(t)
    \/ \E t \in active : CosCastOut(t)
    \/ \E t \in active : CosReturn(t)
    \/ \E t \in active : Resume(t)

SpecThreads == InitThreads /\ [][NextThreads]_vars

\* ------------------------------------------------------------------------
\* Properties
\* ------------------------------------------------------------------------

Supported(metric) == metric \in {"euclidean", "cosine"}
HasEnded(f) == f.pc \in {"returned", "raised"}
NLeft(f) == f.arg_left.shape[1]
NRight(f) == f.arg_right.shape[1]
DLeft(f) == f.arg_left.shape[2]
DRight(f) == f.arg_right.shape[2]
SameD(f) == DLeft(f) = DRight(f)

\* C1: a call whose metric is neither 'euclidean' nor 'cosine' goes from
\* the dispatch straight to a raised ValueError that carries the metric:
\* it reaches no line of either routine, performs no numeric operation and
\* hands no matrix to its caller.
C1_UnsupportedMetricRaisesFirst ==
    \A t \in Threads :
        (frame[t].pc # "idle" /\ ~Supported(frame[t].metric)) =>
            /\ frame[t].pc \in {"tf_cdist", "raised"}
            /\ frame[t].work = {}
            /\ frame[t].outcome.value = NoTensor
            /\ frame[t].pc = "raised" =>
                   /\ frame[t].outcome.error = "ValueError"
                   /\ frame[t].outcome.message = frame[t].metric

C1_Witness ==
    \E t \in Threads :
        /\ frame[t].pc = "raised"
        /\ frame[t].metric = "manhattan"
        /\ frame[t].outcome.error = "ValueError"
        /\ frame[t].outcome.message = "manhattan"

\* C2: a call with metric 'euclidean' ends with exactly the outcome of
\* tf_cdist_euclidean on its arguments, and a call with metric 'cosine'
\* with exactly the outcome of tf_cdist_cos.
C2_DispatchMatchesRoutine ==
    \A t \in Threads :
        HasEnded(frame[t]) =>
            /\ frame[t].metric = "euclidean" =>
                   frame[t].outcome = tf_cdist_euclidean(frame[t].arg_left, frame[t].arg_right)
            /\ frame[t].metric = "cosine" =>
                   frame[t].outcome = tf_cdist_cos(frame[t].arg_left, frame[t].arg_right)

\* a call on two non-parallel points, for which the two routines differ
C2_Witness ==
    \E t \in Threads :
        /\ frame[t].pc = "returned"
        /\ frame[t].metric = "cosine"
        /\ frame[t].arg_left = ArrayOf(1, 2, <<2>>)
        /\ frame[t].arg_right = ArrayOf(1, 2, <<3>>)
        /\ frame[t].outcome.value # tf_cdist_euclidean(frame[t].arg_left, frame[t].arg_right).value
        /\ frame[t].outcome.value = tf_cdist_cos(frame[t].arg_left, frame[t].arg_right).value

\* row i of the array-like x is the zero vector
ZeroRow(x, i) == \A k \in 1..x.shape[2] : x.val[(i - 1) * x.shape[2] + k] = 0
NonZeroRows(x) == \A i \in 1..x.shape[1] : ~ZeroRow(x, i)

\* coordinate k of row i of the array-like x
Xat(x, i, k) == x.val[(i - 1) * x.shape[2] + k]

\* the sum over the coordinates 1..k of the products of the differences
\* (sel = 0), of the coordinates of row i of x and row j of y (sel = 1)
RECURSIVE ExactSum(_, _, _, _, _, _)
ExactSum(sel, x, i, y, j, k) ==
    IF k = 0 THEN 0
    ELSE ExactSum(sel, x, i, y, j, k - 1)
         + (IF sel = 0 THEN (Xat(x, i, k) - Xat(y, j, k)) * (Xat(x, i, k) - Xat(y, j, k))
            ELSE Xat(x, i, k) * Xat(y, j, k))

\* scipy's cdist(left, right, 'euclidean')[i, j]: the square root of the
\* exact sum of the squared differences
RefEuclidean(x, i, y, j) == FSqrt(FromInt(ExactSum(0, x, i, y, j, x.shape[2])))

\* scipy's cdist(left, right, 'cosine')[i, j]: 1 - u.v / (|u| * |v|)
RefCosine(x, i, y, j) ==
    FSub(FromInt(1),
         FDiv(FromInt(ExactSum(1, x, i, y, j, x.shape[2])),
              FMul(FSqrt(FromInt(ExactSum(1, x, i, x, i, x.shape[2]))),
                   FSqrt(FromInt(ExactSum(1, y, j, y, j, y.shape[2]))))))

\* eps = 1e-4 of test_tf_cdist, as a binary32 value
Eps == <<13743895, -37>>

AbsF(a) == IF a[1] < 0 THEN Neg(a) ELSE a
Close(a, b) == IsFinite(a) /\ IsFinite(b) /\ FGt(Eps, AbsF(FSub(a, b)))

\* C3 (as claimed): for point sets with rows of non-zero norm and either
\* metric, every entry of the returned matrix is within 1e-4 of the
\* reference pairwise distance of the two rows.
C3_ClaimedAgreesWithReference ==
    \A t \in Threads :
        (/\ frame[t].pc = "returned"
         /\ Supported(frame[t].metric)
         /\ NonZeroRows(frame[t].arg_left)
         /\ NonZeroRows(frame[t].arg_right)) =>
            \A i \in 1..NLeft(frame[t]), j \in 1..NRight(frame[t]) :
                Close(At(frame[t].outcome.value, i, j),
                      IF frame[t].metric = "euclidean"
                      THEN RefEuclidean(frame[t].arg_left, i, frame[t].arg_right, j)
                      ELSE RefCosine(frame[t].arg_left, i, frame[t].arg_right, j))

\* C4 (as claimed): for either metric every entry of the returned matrix is
\* >= 0, except the entries of a cosine result that involve a zero row.
C4_ClaimedNonNegative ==
    \A t \in Threads :
        (frame[t].pc = "returned" /\ Supported(frame[t].metric)) =>
            \A i \in 1..NLeft(frame[t]), j \in 1..NRight(frame[t]) :
                \/ /\ frame[t].metric = "cosine"
                   /\ ZeroRow(frame[t].arg_left, i) \/ ZeroRow(frame[t].arg_right, j)
                \/ FGe(At(frame[t].outcome.value, i, j), Zero)

\* C5: for either metric and point sets with the same column count, the
\* call returns a matrix of exactly N_left rows and N_right columns,
\* whatever the column count and also when a row count is 1.
C5_ShapeIsLeftByRight ==
    \A t \in Threads :
        (HasEnded(frame[t]) /\ Supported(frame[t].metric) /\ SameD(frame[t])) =>
            /\ frame[t].pc = "returned"
            /\ frame[t].outcome.value.shape = <<NLeft(frame[t]), NRight(frame[t])>>
            /\ Len(frame[t].outcome.value.val) = NLeft(frame[t]) * NRight(frame[t])

C5_Witness ==
    \E t \in Threads :
        /\ frame[t].pc = "returned"
        /\ NLeft(frame[t]) = 1
        /\ NRight(frame[t]) = MaxRows
        /\ DLeft(frame[t]) = MaxD
        /\ frame[t].outcome.value.shape = <<1, MaxRows>>

\* C6 (as claimed): the euclidean matrix of a point set against itself has
\* a zero diagonal and is symmetric.
C6_ClaimedSelfDistance ==
    \A t \in Threads :
        (/\ frame[t].pc = "returned"
         /\ frame[t].metric = "euclidean"
         /\ frame[t].arg_left = frame[t].arg_right) =>
            \A i \in 1..NLeft(frame[t]), j \in 1..NLeft(frame[t]) :
                /\ At(frame[t].outcome.value, i, i) = Zero
                /\ At(frame[t].outcome.value, i, j) = At(frame[t].outcome.value, j, i)

\* C7: a call with a supported metric on point sets whose column counts
\* differ ends with the size-incompatibility error of the matrix product
\* and hands no matrix to its caller.
C7_DimensionMismatchRaises ==
    \A t \in Threads :
        (HasEnded(frame[t]) /\ Supported(frame[t].metric) /\ ~SameD(frame[t])) =>
            /\ frame[t].pc = "raised"
            /\ frame[t].outcome.error = "InvalidArgumentError"
            /\ frame[t].outcome.value = NoTensor

C7_Witness ==
    \E t \in Threads :
        /\ frame[t].pc = "raised"
        /\ frame[t].metric = "cosine"
        /\ DLeft(frame[t]) = 1
        /\ DRight(frame[t]) = 2
        /\ NLeft(frame[t]) = 2
        /\ frame[t].outcome.error = "InvalidArgumentError"

\* C8 (as claimed): a call that raises has performed no numeric operation.
C8_ClaimedErrorsBeforeAnyWork ==
    \A t \in Threads :
        /\ frame[t].pc = "raised" => frame[t].work = {}
        /\ frame[t].pc = "returned" =>
               Len(frame[t].outcome.value.val) = NLeft(frame[t]) * NRight(frame[t])

\* C8 (amended): a call ends in one of two ways.  It returns the full
\* (N_left, N_right) matrix, every numeric operation of its routine done;
\* or it raises and hands no matrix, partial or
\* whole, to its caller.  The unsupported-metric error is raised before any
\* numeric operation; the size-incompatibility error is raised by the
\* matrix product, after the coercion and the squared norms (euclidean) or
\* norms (cosine) of both arguments, and before any product is formed.
C8_FullMatrixOrErrorWithoutMatrix ==
    \A t \in Threads :
        HasEnded(frame[t]) =>
            \/ /\ frame[t].pc = "returned"
               /\ frame[t].outcome.error = ""
               /\ frame[t].outcome.value.shape = <<NLeft(frame[t]), NRight(frame[t])>>
               /\ Len(frame[t].outcome.value.val) = NLeft(frame[t]) * NRight(frame[t])
               /\ frame[t].work = IF frame[t].metric = "euclidean"
                                  THEN {"cast", "sqr", "matmul", "sum", "sqrt"}
                                  ELSE {"cast", "norm", "matmul", "div", "sub"}
            \/ /\ frame[t].pc = "raised"
               /\ frame[t].outcome.value = NoTensor
               /\ \/ /\ frame[t].outcome.error = "ValueError"
                     /\ frame[t].work = {}
                  \/ /\ frame[t].outcome.error = "InvalidArgumentError"
                     /\ frame[t].work = IF frame[t].metric = "euclidean"
                                        THEN {"cast", "sqr"} ELSE {"cast", "norm"}

\* a dimension mismatch raised after the squared norms were computed
C8_Witness ==
    \E t \in Threads :
        /\ frame[t].pc = "raised"
        /\ frame[t].metric = "euclidean"
        /\ frame[t].outcome.error = "InvalidArgumentError"
        /\ frame[t].work = {"cast", "sqr"}
        /\ NLeft(frame[t]) = 1

\* C9: with the euclidean metric and a common column count, a call with
\* N_left = 0 or N_right = 0 raises nothing and returns the matrix of
\* shape (N_left, N_right), which has no entry.
C9_EmptyInputReturnsEmpty ==
    \A t \in Threads :
        (/\ HasEnded(frame[t])
         /\ frame[t].metric = "euclidean"
         /\ SameD(frame[t])
         /\ NLeft(frame[t]) = 0 \/ NRight(frame[t]) = 0) =>
            /\ frame[t].outcome.error = ""
            /\ frame[t].outcome.value = [shape |-> <<NLeft(frame[t]), NRight(frame[t])>>,
                                         val |-> <<>>]

C9_Witness ==
    \E t \in Threads :
        /\ frame[t].pc = "returned"
        /\ frame[t].metric = "euclidean"
        /\ NLeft(frame[t]) = 0
        /\ NRight(frame[t]) = MaxRows
        /\ frame[t].outcome.value.shape = <<0, MaxRows>>

\* the frame holds none of the local names of the two routines
LocalsGone(f) ==
    /\ f.left = NoTensor /\ f.right = NoTensor
    /\ f.rows_count_left = -1 /\ f.rows_count_right = -1
    /\ f.left_sqr = NoTensor /\ f.right_sqr = NoTensor
    /\ f.left_right_mat_mul = NoTensor /\ f.sqr_sum = NoTensor
    /\ f.norm_left = NoTensor /\ f.norm_right = NoTensor
    /\ f.cos = NoTensor /\ f.distance = NoTensor

\* C10: tf_cdist is a pure function.  No step of a call changes the arrays
\* the caller passed; a call that has ended keeps none of its local names,
\* and an idle thread holds nothing of an earlier call; and whatever calls
\* came before, a call ends with the outcome tf_cdist(left, right, metric)
\* of its own arguments.
C10_Pure ==
    [][\A t \in Threads :
          /\ (frame[t].pc # "idle" /\ frame'[t].pc # "idle") =>
                 /\ frame'[t].arg_left = frame[t].arg_left
                 /\ frame'[t].arg_right = frame[t].arg_right
                 /\ frame'[t].metric = frame[t].metric
          /\ frame'[t].pc = "idle" => frame'[t] = NoFrame
          /\ HasEnded(frame'[t]) =>
                 /\ LocalsGone(frame'[t])
                 /\ frame'[t].outcome =
                        tf_cdist(frame'[t].arg_left, frame'[t].arg_right, frame'[t].metric)]_vars

\* a call has returned its matrix: its arguments are as passed and its
\* local names are gone
C10_Witness ==
    \E t \in Threads :
        /\ frame[t].pc = "returned"
        /\ frame[t].metric = "cosine"
        /\ frame[t].arg_left = ArrayOf(2, 2, <<2, 3>>)
        /\ frame[t].arg_right = frame[t].arg_left
        /\ frame[t].left = NoTensor
        /\ frame[t].outcome.value.shape = <<2, 2>>

\* C12: a call without a metric argument is a euclidean call: its metric
\* parameter is 'euclidean', it runs no line of tf_cdist_cos, and it ends
\* with the outcome of tf_cdist(left, right, 'euclidean').
C12_DefaultIsEuclidean ==
    \A t \in Threads :
        (frame[t].pc # "idle" /\ ~frame[t].metric_passed) =>
            /\ frame[t].metric = "euclidean"
            /\ frame[t].pc \notin {"cos_cast", "cos_norm_left", "cos_norm_right", "cos_cos",
                                   "cos_distance", "cos_cast_out", "cos_return"}
            /\ HasEnded(frame[t]) =>
                   frame[t].outcome =
                       tf_cdist(frame[t].arg_left, frame[t].arg_right, "euclidean")

\* a call without metric has returned, on two points whose euclidean and
\* cosine distances differ
C12_Witness ==
    \E t \in Threads :
        /\ frame[t].pc = "returned"
        /\ ~frame[t].metric_passed
        /\ frame[t].arg_left = ArrayOf(1, 2, <<2>>)
        /\ frame[t].arg_right = ArrayOf(1, 2, <<3>>)
        /\ frame[t].outcome = tf_cdist(frame[t].arg_left, frame[t].arg_right, "euclidean")
        /\ frame[t].outcome # tf_cdist(frame[t].arg_left, frame[t].arg_right, "cosine")

\* C11: with several calls in progress at once and their steps interleaved
\* in any order, a step of one call changes the frame of that call alone,
\* and every call ends with the outcome tf_cdist gives for its own
\* arguments when it runs alone.
C11_ConcurrentCallsAreIndependent ==
    [][\A t \in Threads :
          /\ frame'[t].pc # frame[t].pc =>
                 \A u \in Threads \ {t} : frame'[u] = frame[u]
          /\ (frame'[t].pc # frame[t].pc /\ HasEnded(frame'[t])) =>
                 frame'[t].outcome =
                     tf_cdist(frame'[t].arg_left, frame'[t].arg_right, frame'[t].metric)]_vars

\* two calls with different metrics are in progress at once, each at its
\* return line with the matrix of its own arguments
C11_Witness ==
    /\ frame[1].pc = "euclidean_return"
    /\ frame[2].pc = "cos_return"
    /\ frame[1].arg_left = ExampleLeft
    /\ frame[2].arg_left = ExampleLeft
    /\ frame[1].distance = tf_cdist_euclidean(ExampleLeft, ExampleRight).value
    /\ frame[2].distance = tf_cdist_cos(ExampleLeft, ExampleRight).value
    /\ frame[1].distance # frame[2].distance

\* the binary32 value nearest to p / q
Ratio(p, q) == FDiv(FromInt(p), FromInt(q))

\* lo <= a <= hi, for a finite a
Between(a, lo, hi) == IsFinite(a) /\ FGe(a, lo) /\ FGe(hi, a)

\* every entry of the matrix T of shape (2, 2) is within tol / q of the
\* entry of expected, a row-major sequence of numerators over q
WithinOfExpected(T, expected, tol, q) ==
    /\ T.shape = <<2, 2>>
    /\ Len(T.val) = 4
    /\ \A x \in 1..4 :
           Between(T.val[x], Ratio(expected[x] - tol, q), Ratio(expected[x] + tol, q))

\* C13: the euclidean call on the example of the docstring returns a 2x2
\* matrix whose entries are within 1e-2 of [[12.72, 15.55], [9.90, 12.72]].
C13_ExampleEuclidean ==
    \A t \in Threads :
        (/\ HasEnded(frame[t])
         /\ frame[t].metric = "euclidean"
         /\ frame[t].arg_left = ExampleLeft
         /\ frame[t].arg_right = ExampleRight) =>
            /\ frame[t].pc = "returned"
            /\ WithinOfExpected(frame[t].outcome.value, <<1272, 1555, 990, 1272>>, 1, 100)

\* the call has returned sqrt(162), sqrt(242), sqrt(98), sqrt(162) as
\* binary32 values
C13_Witness ==
    \E t \in Threads :
        /\ frame[t].pc = "returned"
        /\ frame[t].metric = "euclidean"
        /\ frame[t].arg_left = ExampleLeft
        /\ frame[t].arg_right = ExampleRight
        /\ frame[t].outcome.value.val =
               <<FSqrt(FromInt(162)), FSqrt(FromInt(242)), FSqrt(FromInt(98)),
                 FSqrt(FromInt(162))>>

\* C14: the cosine call on the example of the docstring returns a 2x2
\* matrix whose entries are within 1e-2 of [[0.037, 0.039], [0.004, 0.005]].
C14_ExampleCosine ==
    \A t \in Threads :
        (/\ HasEnded(frame[t])
         /\ frame[t].metric = "cosine"
         /\ frame[t].arg_left = ExampleLeft
         /\ frame[t].arg_right = ExampleRight) =>
            /\ frame[t].pc = "returned"
            /\ WithinOfExpected(frame[t].outcome.value, <<37, 39, 4, 5>>, 10, 1000)

\* the call has returned a matrix whose first entry lies between 0.0373
\* and 0.0374 and whose third entry lies between 0.0044 and 0.0045
C14_Witness ==
    \E t \in Threads :
        /\ frame[t].pc = "returned"
        /\ frame[t].metric = "cosine"
        /\ frame[t].arg_left = ExampleLeft
        /\ frame[t].arg_right = ExampleRight
        /\ Between(frame[t].outcome.value.val[1], Ratio(373, 10000), Ratio(374, 10000))
        /\ Between(frame[t].outcome.value.val[3], Ratio(44, 10000), Ratio(45, 10000))

\* C15: in tf_cdist_euclidean the output entry is the square root of
\* sqr_sum where sqr_sum > 0 and exactly 0.0 where sqr_sum is 0 or
\* negative; no entry of a euclidean result is NaN or negative.
C15_ClampedSquareRoot ==
    \A t \in Threads :
        /\ frame[t].pc \in {"euclidean_cast_out", "euclidean_return"} =>
               /\ frame[t].distance.shape = frame[t].sqr_sum.shape
               /\ \A x \in 1..Len(frame[t].sqr_sum.val) :
                      /\ FGt(frame[t].sqr_sum.val[x], Zero) =>
                             frame[t].distance.val[x] = FSqrt(frame[t].sqr_sum.val[x])
                      /\ ~FGt(frame[t].sqr_sum.val[x], Zero) =>
                             frame[t].distance.val[x] = Zero
        /\ (frame[t].pc = "returned" /\ frame[t].metric = "euclidean") =>
               \A x \in 1..Len(frame[t].outcome.value.val) :
                   /\ ~IsNaN(frame[t].outcome.value.val[x])
                   /\ FGe(frame[t].outcome.value.val[x], Zero)

\* round-off has made an entry of sqr_sum negative, and the entry of the
\* output is 0.0
C15_Witness ==
    \E t \in Threads :
        /\ frame[t].pc = "euclidean_return"
        /\ \E x \in 1..Len(frame[t].sqr_sum.val) :
               /\ FGt(Zero, frame[t].sqr_sum.val[x])
               /\ frame[t].distance.val[x] = Zero

\* row i of the array-like x, as an array-like of one row
RowOf(x, i) ==
    [shape |-> <<1, x.shape[2]>>, val |-> [k \in 1..x.shape[2] |-> Xat(x, i, k)]]

\* C16: a cosine call on point sets with the same column count returns the
\* full (N_left, N_right) matrix also when rows are all-zero: it raises
\* nothing, every entry of a zero row of left or a zero row of right is
\* inf or NaN, and every other entry is the value the call gives for the
\* two rows alone.
C16_ZeroRowPropagatesNonFinite ==
    \A t \in Threads :
        (HasEnded(frame[t]) /\ frame[t].metric = "cosine" /\ SameD(frame[t])) =>
            /\ frame[t].pc = "returned"
            /\ frame[t].outcome.value.shape = <<NLeft(frame[t]), NRight(frame[t])>>
            /\ Len(frame[t].outcome.value.val) = NLeft(frame[t]) * NRight(frame[t])
            /\ \A i \in 1..NLeft(frame[t]), j \in 1..NRight(frame[t]) :
                   IF ZeroRow(frame[t].arg_left, i) \/ ZeroRow(frame[t].arg_right, j)
                   THEN ~IsFinite(At(frame[t].outcome.value, i, j))
                   ELSE /\ IsFinite(At(frame[t].outcome.value, i, j))
                        /\ At(frame[t].outcome.value, i, j) =
                               tf_cdist_cos(RowOf(frame[t].arg_left, i),
                                            RowOf(frame[t].arg_right, j)).value.val[1]

\* a cosine call whose left has a zero row and a non-zero row has returned:
\* the entries of the zero row are NaN, those of the other row are finite
C16_Witness ==
    \E t \in Threads :
        /\ frame[t].pc = "returned"
        /\ frame[t].metric = "cosine"
        /\ frame[t].arg_left = ArrayOf(2, 2, <<1, 2>>)
        /\ frame[t].arg_right = ArrayOf(1, 2, <<3>>)
        /\ IsNaN(At(frame[t].outcome.value, 1, 1))
        /\ IsFinite(At(frame[t].outcome.value, 2, 1))

\* C17 (as claimed): swapping the two arguments transposes the result: for
\* point sets with the same column count and rows of non-zero norm, and
\* either metric, entry (i, j) of tf_cdist(left, right, metric) equals
\* entry (j, i) of tf_cdist(right, left, metric).
C17_ClaimedSwapTransposes ==
    \A t \in Threads :
        (/\ frame[t].pc = "returned"
         /\ Supported(frame[t].metric)
         /\ SameD(frame[t])
         /\ NonZeroRows(frame[t].arg_left)
         /\ NonZeroRows(frame[t].arg_right)) =>
            \A i \in 1..NLeft(frame[t]), j \in 1..NRight(frame[t]) :
                At(frame[t].outcome.value, i, j) =
                    At(tf_cdist(frame[t].arg_right, frame[t].arg_left, frame[t].metric).value,
                       j, i)

=============================================================================
